---- MODULE Spec2Model ----
(***************************************************************************)
(* A model of the Jild AI application (zirakkk/jildai): the settings       *)
(* resolver (src/src/config.py), the analysis dispatcher                   *)
(* (src/src/ai_analyzer.py) and the image normalizer                       *)
(* (src/src/image_handler.py).                                             *)
(*                                                                         *)
(* Python values are represented as follows.                               *)
(*   - Optional[str]: <<>> is None, <<s>> is the string s.                 *)
(*   - a display name (a str the code inspects character by character) is  *)
(*     the sequence of its Unicode code points.                            *)
(*   - a dict is a function from its keys to its values; a result dict of  *)
(*     the analyzer has exactly the keys the code writes.                  *)
(*   - a parsed JSON body is a record [kind, text, items, keys, val]: kind *)
(*     is the Python type, text the content of a leaf, items the elements  *)
(*     of a list, keys and val the keys (in order) and mapping of a dict.  *)
(*   - a call that returns is [raised |-> FALSE, ...]; an exception that   *)
(*     leaves a function is the value Raised(text).                        *)
(***************************************************************************)
EXTENDS Integers, Sequences, FiniteSets, TLC

VARIABLES
    pc,                   \* position of the call under study: "start" or "done"
    openrouter_api_key,   \* Config.openrouter_api_key (Optional[str])
    huggingface_api_key,  \* Config.huggingface_api_key (Optional[str])
    model_name,           \* analyze_skin argument: display name
    model_id,             \* analyze_skin argument: model identifier
    base64_image,         \* analyze_skin argument: the encoded image
    analysis_result,      \* the dict analyze_skin returned
    calls,                \* the network calls the analyze call issued, in order
    response,             \* what the two providers answer to a request
    image_file,           \* the uploaded file handed to prepare_image_for_api
    prep_result,          \* what prepare_image_for_api returned
    displayed,            \* the display_error calls made, in order
    decoded,              \* whether Image.open was called on the upload
    image_in,             \* resize_image argument: the image
    box,                  \* resize_image argument max_size: None or Some((width, height))
    image_out,            \* the image resize_image returned
    st_secrets,           \* st.secrets: whether reading it raises, and its entries
    os_environ,           \* os.environ: the value of each variable, None when unset
    session_state,        \* st.session_state: a dict
    analyzed              \* whether the last run of main() called analyzer.analyze_skin

vars == <<pc, openrouter_api_key, huggingface_api_key, model_name, model_id,
          base64_image, analysis_result, calls, response, image_file, prep_result,
          displayed, decoded, image_in, box, image_out, st_secrets, os_environ,
          session_state, analyzed>>

analyzeVars == <<model_name, model_id, base64_image, analysis_result, calls, response>>
configVars == <<openrouter_api_key, huggingface_api_key>>
prepareVars == <<image_file, prep_result, displayed, decoded>>
resizeVars == <<image_in, box, image_out>>
sourceVars == <<st_secrets, os_environ>>
sessionVars == <<session_state, analyzed>>

----------------------------------------------------------------------------
(* Python helpers *)

None == <<>>
Some(s) == <<s>>

\* An exception of class `class` (the handler class that catches it), str(e) = text
Raised(class, text) == [raised |-> TRUE, class |-> class, text |-> text]
Returned(v) == [raised |-> FALSE, value |-> v]

\* str.startswith
StartsWith(s, prefix) ==
    /\ Len(s) >= Len(prefix)
    /\ SubSeq(s, 1, Len(prefix)) = prefix

\* dict.update: the entries of d2 override those of d1
Update(d1, d2) ==
    [k \in (DOMAIN d1) \cup (DOMAIN d2) |-> IF k \in DOMAIN d2 THEN d2[k] ELSE d1[k]]

EmptyDict == <<>>

----------------------------------------------------------------------------
(* Text literals of the source, as code points *)

\* U+1F512 (lock) and U+1F917 (hugging face), as config.py and app.py write them
LOCK == <<128274>>
HUG == <<129303>>
\* the four-character literals ai_analyzer.py tests for:
\* U+00F0 U+0178 U+201D U+2019 and U+00F0 U+0178 U+00A4 U+2014
OPENROUTER_PREFIX == <<240, 376, 8221, 8217>>
HUGGINGFACE_PREFIX == <<240, 376, 164, 8212>>
SPACE == <<32>>
\* "Qwen2.5"
Qwen25 == <<81, 119, 101, 110, 50, 46, 53>>
\* "Llava" (a catalog key the source keeps commented out)
Llava == <<76, 108, 97, 118, 97>>
QwenId == "qwen/qwen2.5-vl-32b-instruct:free"
LlavaId == "llava-hf/llava-v1.6-34b-hf"

----------------------------------------------------------------------------
(* Config: src/src/config.py *)

\* _get_secret consulting the environment before the secrets store
get_secret_EnvironmentFirst(secrets, environ, key) ==
    IF environ[key] # None
      THEN environ[key]
    ELSE IF ~secrets.raises /\ secrets.entries[key] # None
      THEN secrets.entries[key]
    ELSE None

\* Config._get_secret(key). secrets.raises: `key in st.secrets` raises (no
\* secrets file, unreadable store); secrets.entries[key] is None when the key
\* is not in the store. environ[key] is os.getenv(key): None when unset.
get_secret(secrets, environ, key) ==
    IF ~secrets.raises /\ secrets.entries[key] # None
      THEN secrets.entries[key]
      ELSE environ[key]

openrouter_models == (Qwen25 :> QwenId)
\* the Hugging Face catalog with the LLaVA entry the source has commented out
huggingface_models_Llava == (Llava :> LlavaId)

huggingface_models == EmptyDict

\* the readiness check without the length test
is_configured_NotNone(key) == key # None

is_configured(key) == key # None /\ key[1] # ""
is_openrouter_configured(orKey) == is_configured(orKey)
is_huggingface_configured(hfKey) == is_configured(hfKey)

\* {f"<marker> {k}": v for k, v in catalog.items()}
Prefixed(marker, catalog) ==
    LET names == {marker \o SPACE \o k : k \in DOMAIN catalog}
    IN [n \in names |-> catalog[SubSeq(n, Len(marker) + 2, Len(n))]]

get_available_models(orKey, hfKey) ==
    LET a0 == EmptyDict
        a1 == IF is_openrouter_configured(orKey)
                THEN Update(a0, Prefixed(LOCK, openrouter_models)) ELSE a0
        a2 == IF is_huggingface_configured(hfKey)
                THEN Update(a1, Prefixed(HUG, huggingface_models)) ELSE a1
    IN a2

max_image_size == <<1024, 1024>>
max_file_size_mb == 10
\* 'jpg', 'jpeg', 'png', 'webp'
supported_formats ==
    << <<106, 112, 103>>, <<106, 112, 101, 103>>, <<112, 110, 103>>, <<119, 101, 98, 112>> >>

----------------------------------------------------------------------------
(* More Python helpers: str.split, str.lower, `in` on a list *)

Positions(s, c) == {i \in DOMAIN s : s[i] = c}
Min(S) == CHOOSE m \in S : \A n \in S : m <= n

\* s.split(sep) for a one-character separator: the list of the segments
RECURSIVE Split(_, _)
Split(s, c) ==
    IF Positions(s, c) = {} THEN <<s>>
    ELSE LET i == Min(Positions(s, c))
         IN <<SubSeq(s, 1, i - 1)>> \o Split(SubSeq(s, i + 1, Len(s)), c)

\* s.lower(), on the ASCII letters
Lower(s) == [i \in DOMAIN s |-> IF s[i] \in 65..90 THEN s[i] + 32 ELSE s[i]]

InList(x, list) == \E i \in DOMAIN list : list[i] = x

\* the separator of image_file.name.split('.')
DOT == 46

----------------------------------------------------------------------------
(* display_error: src/src/utils.py *)

\* One display_error call: the message and the exception text shown with it
Shown(message, exception) == [message |-> message, exception |-> exception]
\* A message: its fixed wording and the values formatted into it
Message(wording, values) == [wording |-> wording, values |-> values]

----------------------------------------------------------------------------
(* ImageHandler: src/src/image_handler.py *)

\* An uploaded file: name (code points), size in bytes, content (which picture
\* it is), and how Pillow treats its bytes: header_ok (Image.open identifies
\* it), data_ok (the pixel data loads), mode, width, height, encodable (the
\* JPEG encoder accepts the converted bitmap).

\* file_size_mb > config.max_file_size_mb, where file_size_mb = size / (1024 * 1024)
\* is an exact float quotient (a division by a power of two)
SizeExceeds(size) == size > max_file_size_mb * (1024 * 1024)

\* validate_image with the format check made before the size check
validate_image_FormatFirst(file) ==
    IF file = None
      THEN [is_valid |-> FALSE, error_msg |-> Message("No image file provided", <<>>)]
    ELSE LET f == file[1]
             file_extension == Lower(Split(f.name, DOT)[Len(Split(f.name, DOT))])
         IN IF ~InList(file_extension, supported_formats)
              THEN [is_valid |-> FALSE,
                    error_msg |-> Message("File format not supported", file_extension)]
            ELSE IF SizeExceeds(f.size)
              THEN [is_valid |-> FALSE,
                    error_msg |-> Message("File size exceeds maximum allowed size",
                                          <<f.size, max_file_size_mb>>)]
            ELSE [is_valid |-> TRUE, error_msg |-> Message("", <<>>)]

\* validate_image without the .lower() of the extension
validate_image_CaseSensitive(file) ==
    IF file = None
      THEN [is_valid |-> FALSE, error_msg |-> Message("No image file provided", <<>>)]
    ELSE LET f == file[1]
             file_extension == Split(f.name, DOT)[Len(Split(f.name, DOT))]
         IN IF SizeExceeds(f.size)
              THEN [is_valid |-> FALSE,
                    error_msg |-> Message("File size exceeds maximum allowed size",
                                          <<f.size, max_file_size_mb>>)]
            ELSE IF ~InList(file_extension, supported_formats)
              THEN [is_valid |-> FALSE,
                    error_msg |-> Message("File format not supported", file_extension)]
            ELSE [is_valid |-> TRUE, error_msg |-> Message("", <<>>)]

validate_image(file) ==
    IF file = None
      THEN [is_valid |-> FALSE, error_msg |-> Message("No image file provided", <<>>)]
    ELSE LET f == file[1]
             file_extension == Lower(Split(f.name, DOT)[Len(Split(f.name, DOT))])
         IN IF SizeExceeds(f.size)
              THEN [is_valid |-> FALSE,
                    error_msg |-> Message("File size exceeds maximum allowed size",
                                          <<f.size, max_file_size_mb>>)]
            ELSE IF ~InList(file_extension, supported_formats)
              THEN [is_valid |-> FALSE,
                    error_msg |-> Message("File format not supported", file_extension)]
            ELSE [is_valid |-> TRUE, error_msg |-> Message("", <<>>)]

\* Image.open: reads the header only; the pixel data is read on first use
OpenImage(f) ==
    [width |-> f.width, height |-> f.height, mode |-> f.mode, loaded |-> FALSE,
     data_ok |-> f.data_ok, encodable |-> f.encodable, content |-> f.content]

\* load_image: [image |-> None or Some(image), displayed |-> the errors shown]
load_image(f) ==
    IF ~f.header_ok
      THEN [image |-> None,
            displayed |-> <<Shown(Message("Failed to load image", <<>>),
                                  Some("cannot identify image file"))>>]
    ELSE IF f.mode # "RGB"
      THEN \* image.convert('RGB') reads the pixel data
           IF ~f.data_ok
             THEN [image |-> None,
                   displayed |-> <<Shown(Message("Failed to load image", <<>>),
                                         Some("image file is truncated"))>>]
             ELSE [image |-> Some([OpenImage(f) EXCEPT !.mode = "RGB", !.loaded = TRUE]),
                   displayed |-> <<>>]
    ELSE [image |-> Some(OpenImage(f)), displayed |-> <<>>]

Abs(n) == IF n < 0 THEN -n ELSE n
Max2(a, b) == IF a >= b THEN a ELSE b
CeilDiv(a, b) == IF a % b = 0 THEN a \div b ELSE (a \div b) + 1

\* Pillow's Image.thumbnail((x, y)) on a w x h image that exceeds the box, as
\* called by resize_image: the size it resizes to. Pillow computes
\*   aspect = w / h
\*   if x / y >= aspect: x = round_aspect(y * aspect, key = |aspect - n / y|)
\*   else:               y = round_aspect(x / aspect, key = 0 if n == 0 else |aspect - x / n|)
\*   round_aspect(number, key) = max(min(floor(number), ceil(number), key = key), 1)
\* in floating point; here the same quotients are compared exactly, by cross
\* multiplication (min returns its first argument on a tie).
thumbnail(w, h, size) ==
    LET x == size[1]
        y == size[2]
    IN IF x * h >= w * y
         THEN LET lo == (y * w) \div h
                  hi == CeilDiv(y * w, h)
                  pick == IF Abs(w * y - lo * h) <= Abs(w * y - hi * h) THEN lo ELSE hi
              IN <<Max2(pick, 1), y>>
         ELSE LET lo == (x * h) \div w
                  hi == CeilDiv(x * h, w)
                  pick == IF lo = 0 THEN lo
                          ELSE IF Abs(w * lo - x * h) * hi <= Abs(w * hi - x * h) * lo
                            THEN lo ELSE hi
              IN <<x, Max2(pick, 1)>>

\* resize_image with `or` in the guard of the early return
resize_image_EitherFits(image, max_size) ==
    LET size == IF max_size = None THEN max_image_size ELSE max_size[1]
    IN IF image.width <= size[1] \/ image.height <= size[2]
         THEN Returned(image)
       ELSE IF ~image.loaded /\ ~image.data_ok
         THEN Raised("OSError", "image file is truncated")
       ELSE LET t == thumbnail(image.width, image.height, size)
            IN Returned([image EXCEPT !.width = t[1], !.height = t[2], !.loaded = TRUE])

\* resize_image: the image it returns, or the exception image.thumbnail raises
\* when it reads pixel data that does not load
resize_image(image, max_size) ==
    LET size == IF max_size = None THEN max_image_size ELSE max_size[1]
    IN IF image.width <= size[1] /\ image.height <= size[2]
         THEN Returned(image)
       ELSE IF ~image.loaded /\ ~image.data_ok
         THEN Raised("OSError", "image file is truncated")
       ELSE LET t == thumbnail(image.width, image.height, size)
            IN Returned([image EXCEPT !.width = t[1], !.height = t[2], !.loaded = TRUE])

\* The base64 text of the JPEG (quality 95) of a bitmap: determined by the
\* picture and its dimensions
Base64Jpeg(image) ==
    [content |-> image.content, width |-> image.width, height |-> image.height]

\* image_to_base64: image.save reads the pixel data if nothing has yet
image_to_base64(image) ==
    IF ~image.loaded /\ ~image.data_ok
      THEN Raised("OSError", "image file is truncated")
    ELSE IF ~image.encodable
      THEN Raised("OSError", "encoder error -2 when writing image file")
    ELSE Returned(Base64Jpeg(image))

\* What prepare_image_for_api hands back: None, the tuple (image, base64), or
\* an exception that leaves it
NoImage == <<>>
ReturnedNone == [returned |-> "None", image |-> NoImage, base64 |-> <<>>, text |-> ""]
ReturnedTuple(image, b64) ==
    [returned |-> "tuple", image |-> image, base64 |-> b64, text |-> ""]
Escaped(text) == [returned |-> "raised", image |-> NoImage, base64 |-> <<>>, text |-> text]

\* prepare_image_for_api with load_image's wording on the encode failure too
prepare_image_for_api_SameWording(file) ==
    LET v == validate_image(file)
    IN IF ~v.is_valid
         THEN [result |-> ReturnedNone, displayed |-> <<Shown(v.error_msg, None)>>,
               opened |-> FALSE]
       ELSE LET l == load_image(file[1])
            IN IF l.image = None
                 THEN [result |-> ReturnedNone, displayed |-> l.displayed, opened |-> TRUE]
               ELSE LET r == resize_image(l.image[1], None)
                    IN IF r.raised
                         THEN [result |-> Escaped(r.text), displayed |-> <<>>, opened |-> TRUE]
                       ELSE LET b == image_to_base64(r.value)
                            IN IF b.raised
                                 THEN [result |-> ReturnedNone,
                                       displayed |-> <<Shown(Message("Failed to load image", <<>>),
                                                             Some(b.text))>>,
                                       opened |-> TRUE]
                                 ELSE [result |-> ReturnedTuple(
                                                    [r.value EXCEPT !.loaded = TRUE], b.value),
                                       displayed |-> <<>>, opened |-> TRUE]

\* prepare_image_for_api: its return value, the errors it displayed, and
\* whether Image.open was called
prepare_image_for_api(file) ==
    LET v == validate_image(file)
    IN IF ~v.is_valid
         THEN [result |-> ReturnedNone, displayed |-> <<Shown(v.error_msg, None)>>,
               opened |-> FALSE]
       ELSE LET l == load_image(file[1])
            IN IF l.image = None
                 THEN [result |-> ReturnedNone, displayed |-> l.displayed, opened |-> TRUE]
               ELSE LET r == resize_image(l.image[1], None)
                    IN IF r.raised
                         THEN [result |-> Escaped(r.text), displayed |-> <<>>, opened |-> TRUE]
                       ELSE LET b == image_to_base64(r.value)
                            IN IF b.raised
                                 THEN [result |-> ReturnedNone,
                                       displayed |-> <<Shown(Message("Failed to process image", <<>>),
                                                             Some(b.text))>>,
                                       opened |-> TRUE]
                                 ELSE [result |-> ReturnedTuple(
                                                    [r.value EXCEPT !.loaded = TRUE], b.value),
                                       displayed |-> <<>>, opened |-> TRUE]

----------------------------------------------------------------------------
(* Parsed JSON bodies and their str() rendering *)

JStr(s) == [kind |-> "str", text |-> s, items |-> <<>>, keys |-> <<>>, val |-> <<>>]
JInt(digits) == [kind |-> "int", text |-> digits, items |-> <<>>, keys |-> <<>>, val |-> <<>>]
JNull == [kind |-> "NoneType", text |-> "None", items |-> <<>>, keys |-> <<>>, val |-> <<>>]
\* a dict whose values are strings: ks the keys in insertion order, vs their values
JDict(ks, vs) ==
    [kind |-> "dict", text |-> "", items |-> <<>>, keys |-> ks,
     val |-> [k \in {ks[i] : i \in DOMAIN ks} |->
                vs[CHOOSE i \in DOMAIN ks : ks[i] = k]]]
JList(elems) == [kind |-> "list", text |-> "", items |-> elems, keys |-> <<>>, val |-> <<>>]

RECURSIVE JoinText(_)
JoinText(texts) ==
    IF texts = <<>> THEN ""
    ELSE IF Len(texts) = 1 THEN texts[1]
    ELSE texts[1] \o ", " \o JoinText(Tail(texts))

\* repr() of a body that holds no list or dict
ReprLeaf(b) == IF b.kind = "str" THEN "'" \o b.text \o "'" ELSE b.text
ReprDict(b) ==
    "{" \o JoinText([i \in DOMAIN b.keys |->
                        "'" \o b.keys[i] \o "': '" \o b.val[b.keys[i]] \o "'"]) \o "}"
\* repr() of an element of a list
ReprItem(b) == IF b.kind = "dict" THEN ReprDict(b) ELSE ReprLeaf(b)
\* str(result)
PyStr(b) ==
    CASE b.kind = "str" -> b.text
      [] b.kind = "dict" -> ReprDict(b)
      [] b.kind = "list" ->
            "[" \o JoinText([i \in DOMAIN b.items |-> ReprItem(b.items[i])]) \o "]"
      [] OTHER -> b.text

\* d.get(k, default) on a dict
Get(d, k, default) == IF k \in DOMAIN d.val THEN d.val[k] ELSE default

----------------------------------------------------------------------------
(* AIAnalyzer: src/src/ai_analyzer.py *)

Success(analysis, id, provider) ==
    [success |-> TRUE, analysis |-> analysis, model |-> id, provider |-> provider]
\* a failure dict that also carries an (empty) 'analysis' entry
Failure_WithAnalysis(error, id, provider) ==
    [success |-> FALSE, error |-> error, analysis |-> "", model |-> id, provider |-> provider]

Failure(error, id, provider) ==
    [success |-> FALSE, error |-> error, model |-> id, provider |-> provider]

Call(provider, id, img) == [provider |-> provider, model |-> id, image |-> img]

\* What the OpenRouter side does with one request:
\*   kind "no_client"    the OpenAI client constructor raises (no request is sent)
\*   kind "timeout", "connection", "status_error"
\*                       client.chat.completions.create raises after the request
\*   kind "no_choices"   the completion has an empty choices list (IndexError)
\*   kind "ok"           the completion carries message content `text`
\* The try block of analyze_with_openrouter
OpenRouterTry(id, o) ==
    IF o.kind = "ok"
      THEN Returned(Success(o.text, id, "OpenRouter"))
      ELSE Raised("Exception", o.text)

\* The requests the try block sent before it returned or raised
OpenRouterCalls(img, id, o) ==
    IF o.kind = "no_client" THEN <<>> ELSE <<Call("OpenRouter", id, img)>>

analyze_with_openrouter(img, id, o) ==
    LET t == OpenRouterTry(id, o)
    IN [result |-> IF t.raised THEN Failure(t.text, id, "OpenRouter") ELSE t.value,
        calls |-> OpenRouterCalls(img, id, o)]

\* ExtractText with the two dict fields looked up in the opposite order
ExtractText_TextFirst(result) ==
    IF result.kind = "list" /\ Len(result.items) > 0
      THEN IF result.items[1].kind = "dict"
             THEN Returned(Get(result.items[1], "generated_text", PyStr(result)))
             ELSE Raised("Exception",
                         "'" \o result.items[1].kind \o "' object has no attribute 'get'")
    ELSE IF result.kind = "dict"
      THEN Returned(Get(result, "text", Get(result, "generated_text", PyStr(result))))
    ELSE Returned(PyStr(result))

\* The text extraction of analyze_with_huggingface from the parsed body
ExtractText(result) ==
    IF result.kind = "list" /\ Len(result.items) > 0
      THEN IF result.items[1].kind = "dict"
             THEN Returned(Get(result.items[1], "generated_text", PyStr(result)))
             ELSE Raised("Exception",
                         "'" \o result.items[1].kind \o "' object has no attribute 'get'")
    ELSE IF result.kind = "dict"
      THEN Returned(Get(result, "generated_text", Get(result, "text", PyStr(result))))
    ELSE Returned(PyStr(result))

\* What the Hugging Face side does with one request:
\*   kind "timeout", "connection"  requests.post raises a RequestException
\*                                 that carries no response
\*   kind "other"                  requests.post raises an exception that is
\*                                 no RequestException
\*   kind "http_error"             raise_for_status raises HTTPError; the
\*                                 response body is `body` when `parsable`
\*   kind "ok"                     status 200; response.json() is `body` when
\*                                 `parsable` and raises otherwise
\* The try block of analyze_with_huggingface
HuggingFaceTry(id, o) ==
    CASE o.kind \in {"timeout", "connection", "http_error"} ->
           Raised("RequestException", o.text)
      [] o.kind = "ok" /\ ~o.parsable -> Raised("RequestException", o.text)
      [] o.kind = "ok" /\ o.parsable ->
           LET x == ExtractText(o.body)
           IN IF x.raised THEN x ELSE Returned(Success(x.value, id, "Hugging Face"))
      [] OTHER -> Raised("Exception", o.text)

\* The handler's search for a detailed message: `'error' in error_detail`
\* followed by error_detail['error']. Only a dict with the key yields one;
\* every other body answers False or raises inside the bare try, and str(e) stays.
ErrorDetail(o) ==
    IF /\ o.kind = "http_error"
       /\ o.has_response
       /\ o.parsable
       /\ o.body.kind = "dict"
       /\ "error" \in DOMAIN o.body.val
      THEN o.body.val["error"]
      ELSE o.text

\* analyze_with_huggingface without its last `except Exception` clause
analyze_with_huggingface_NoCatchAll(img, id, o) ==
    LET t == HuggingFaceTry(id, o)
    IN [result |-> IF ~t.raised THEN t.value
                   ELSE IF t.class = "RequestException"
                     THEN Failure(ErrorDetail(o), id, "Hugging Face")
                   ELSE t,
        calls |-> <<Call("Hugging Face", id, img)>>]

analyze_with_huggingface(img, id, o) ==
    LET t == HuggingFaceTry(id, o)
    IN [result |-> IF ~t.raised THEN t.value
                   ELSE IF t.class = "RequestException"
                     THEN Failure(ErrorDetail(o), id, "Hugging Face")
                   ELSE Failure(t.text, id, "Hugging Face"),
        calls |-> <<Call("Hugging Face", id, img)>>]

\* analyze_skin with the two provider branches exchanged
analyze_skin_Swapped(img, name, id, oo, ho) ==
    IF StartsWith(name, OPENROUTER_PREFIX)
      THEN analyze_with_huggingface(img, id, ho)
    ELSE IF StartsWith(name, HUGGINGFACE_PREFIX)
      THEN analyze_with_openrouter(img, id, oo)
    ELSE [result |-> Failure("Unknown model provider", id, "Unknown"), calls |-> <<>>]

\* analyze_skin with OpenRouter as the default instead of the failure branch
analyze_skin_DefaultProvider(img, name, id, oo, ho) ==
    IF StartsWith(name, HUGGINGFACE_PREFIX)
      THEN analyze_with_huggingface(img, id, ho)
      ELSE analyze_with_openrouter(img, id, oo)

analyze_skin(img, name, id, oo, ho) ==
    IF StartsWith(name, OPENROUTER_PREFIX)
      THEN analyze_with_openrouter(img, id, oo)
    ELSE IF StartsWith(name, HUGGINGFACE_PREFIX)
      THEN analyze_with_huggingface(img, id, ho)
    ELSE [result |-> Failure("Unknown model provider", id, "Unknown"), calls |-> <<>>]

----------------------------------------------------------------------------
(* The requests and the provider behaviours the analyzer is exercised with *)

KeyValues == {None, Some(""), Some("sk-key")}

\* Display names: the catalog's own entries, names carrying the literals the
\* dispatcher tests for, names with a marker that is not a prefix, names with
\* no marker, the empty name.
ModelNames ==
    { LOCK \o SPACE \o Qwen25,
      HUG \o SPACE \o Llava,
      OPENROUTER_PREFIX \o SPACE \o Qwen25,
      HUGGINGFACE_PREFIX \o SPACE \o Llava,
      OPENROUTER_PREFIX,
      SPACE \o OPENROUTER_PREFIX \o Qwen25,
      HUGGINGFACE_PREFIX \o OPENROUTER_PREFIX,
      Qwen25,
      <<>> }
ModelIds == {QwenId, LlavaId}
Base64Images == {"/9j/4AAQ", "iVBORw0K"}

OpenRouterOutcomes ==
    { [kind |-> "ok", text |-> "X"],
      [kind |-> "ok", text |-> ""],
      [kind |-> "no_client", text |-> "The api_key client option must be set"],
      [kind |-> "timeout", text |-> "Request timed out."],
      [kind |-> "connection", text |-> "Connection error."],
      [kind |-> "status_error", text |-> "Error code: 500"],
      [kind |-> "no_choices", text |-> "list index out of range"] }

\* Bodies of a status-200 answer
GT == "generated_text"
SuccessBodies ==
    { JList(<<JDict(<<GT>>, <<"X">>)>>),
      JList(<<JDict(<<GT>>, <<"Y">>), JDict(<<GT>>, <<"X">>)>>),
      JList(<<JDict(<<"text">>, <<"X">>)>>),
      JList(<<JDict(<<"text", GT>>, <<"X", "Y">>)>>),
      JList(<<JDict(<<>>, <<>>)>>),
      JList(<<>>),
      JList(<<JStr("X")>>),
      JList(<<JInt("1"), JDict(<<GT>>, <<"X">>)>>),
      JList(<<JNull>>),
      JDict(<<GT>>, <<"X">>),
      JDict(<<"text">>, <<"X">>),
      JDict(<<"text", GT>>, <<"X", "Y">>),
      JDict(<<GT, "text">>, <<"X", "Y">>),
      JDict(<<"label">>, <<"X">>),
      JDict(<<>>, <<>>),
      JStr("X"),
      JInt("7"),
      JNull }

\* Bodies of an error answer
ErrorBodies ==
    { JDict(<<"error">>, <<"Model is loading">>),
      JDict(<<"message">>, <<"Internal Server Error">>),
      JList(<<JStr("error")>>),
      JStr("upstream error"),
      JInt("500") }

HFResponse(kind, text, has_response, parsable, body) ==
    [kind |-> kind, text |-> text, has_response |-> has_response,
     parsable |-> parsable, body |-> body]

HuggingFaceOutcomes ==
    { HFResponse("ok", "", TRUE, TRUE, b) : b \in SuccessBodies }
    \cup { HFResponse("ok", "Expecting value: line 1 column 1 (char 0)", TRUE, FALSE, JNull) }
    \cup { HFResponse("http_error", "500 Server Error: Internal Server Error", TRUE, TRUE, b) :
             b \in ErrorBodies }
    \cup { HFResponse("http_error", "500 Server Error: Internal Server Error", TRUE, FALSE, JNull),
           HFResponse("timeout", "Read timed out. (read timeout=120)", FALSE, FALSE, JNull),
           HFResponse("connection", "Connection aborted.", FALSE, FALSE, JNull),
           HFResponse("other", "Invalid URL", FALSE, FALSE, JNull) }

\* The two providers' behaviours, varied one provider at a time
Responses ==
    { [openrouter |-> oo, huggingface |-> HFResponse("ok", "", TRUE, TRUE, JStr("X"))] :
        oo \in OpenRouterOutcomes }
    \cup { [openrouter |-> [kind |-> "ok", text |-> "X"], huggingface |-> ho] :
             ho \in HuggingFaceOutcomes }

NoPrepResult == [returned |-> "", image |-> NoImage, base64 |-> <<>>, text |-> ""]
NoResult == <<>>
NoResponse == <<>>

----------------------------------------------------------------------------
(* One call of analyze_skin, for every configuration *)

ConfigInit ==
    /\ openrouter_api_key \in KeyValues
    /\ huggingface_api_key \in KeyValues

AnalyzeIdle ==
    /\ model_name = <<>>
    /\ model_id = ""
    /\ base64_image = ""
    /\ analysis_result = NoResult
    /\ calls = <<>>
    /\ response = NoResponse

PrepareIdle ==
    /\ image_file = None
    /\ prep_result = NoPrepResult
    /\ displayed = <<>>
    /\ decoded = FALSE

ResizeIdle ==
    /\ image_in = NoImage
    /\ box = None
    /\ image_out = NoImage

SourcesIdle ==
    /\ st_secrets = <<>>
    /\ os_environ = <<>>

SessionIdle ==
    /\ session_state = EmptyDict
    /\ analyzed = FALSE

InitAnalyze ==
    /\ pc = "start"
    /\ ConfigInit
    /\ AnalyzeIdle
    /\ PrepareIdle
    /\ ResizeIdle
    /\ SourcesIdle
    /\ SessionIdle

AnalyzeSkin(img, name, id, resp) ==
    /\ pc = "start"
    /\ LET r == analyze_skin(img, name, id, resp.openrouter, resp.huggingface)
       IN /\ analysis_result' = r.result
          /\ calls' = r.calls
    /\ model_name' = name
    /\ model_id' = id
    /\ base64_image' = img
    /\ response' = resp
    /\ pc' = "done"
    /\ UNCHANGED <<configVars, prepareVars, resizeVars, sourceVars, sessionVars>>

NextAnalyze ==
    \E img \in Base64Images, name \in ModelNames, id \in ModelIds, resp \in Responses :
        AnalyzeSkin(img, name, id, resp)

SpecAnalyze == InitAnalyze /\ [][NextAnalyze]_vars

----------------------------------------------------------------------------
(* The uploads prepare_image_for_api is exercised with *)

MaxNameLen == 4
SizeSlack == 2
MaxFileBytes == max_file_size_mb * (1024 * 1024)

\* '.', 'p', 'n', 'g', 'P', 'N'
NameChars == {46, 112, 110, 103, 80, 78}
GeneratedNames == UNION {[1..k -> NameChars] : k \in 0..MaxNameLen}

WrittenNames ==
    { <<97, 46, 106, 112, 103>>,                  \* a.jpg
      <<97, 46, 106, 112, 101, 103>>,             \* a.jpeg
      <<97, 46, 119, 101, 98, 112>>,              \* a.webp
      <<97, 46, 74, 80, 71>>,                     \* a.JPG
      <<97, 46, 80, 110, 103>>,                   \* a.Png
      <<97, 46, 87, 69, 66, 80>>,                 \* a.WEBP
      <<97, 46, 103, 105, 102>>,                  \* a.gif
      <<97, 46, 112, 110, 103, 46, 116, 120, 116>>,  \* a.png.txt
      <<97, 46, 116, 97, 114, 46, 112, 110, 103>>,   \* a.tar.png
      <<97, 46, 106, 112, 103, 32>>,              \* "a.jpg " (trailing space)
      <<106, 112, 101, 103>>,                     \* jpeg
      <<97>> }                                    \* a

FileSizes == {0} \cup {MaxFileBytes + d : d \in (-SizeSlack)..SizeSlack}

File(name, size, header_ok, data_ok, mode, dims, encodable) ==
    [name |-> name, size |-> size, header_ok |-> header_ok, data_ok |-> data_ok,
     mode |-> mode, width |-> dims[1], height |-> dims[2], encodable |-> encodable,
     content |-> "photo"]

\* Every combination of the attributes, on the written names
VariedFiles ==
    { File(n, sz, h, d, m, wh, e) :
        n \in WrittenNames, sz \in {MaxFileBytes, MaxFileBytes + 1},
        h \in BOOLEAN, d \in BOOLEAN, m \in {"RGB", "RGBA"},
        wh \in {<<800, 600>>, <<4032, 3024>>}, e \in BOOLEAN }
\* Every name and size, on a sound picture and on bytes that are no picture
NamedFiles ==
    { File(n, sz, h, h, "RGB", <<800, 600>>, TRUE) :
        n \in GeneratedNames \cup WrittenNames, sz \in FileSizes, h \in BOOLEAN }

Uploads == {None} \cup {Some(f) : f \in VariedFiles \cup NamedFiles}

InitPrepare ==
    /\ pc = "start"
    /\ openrouter_api_key = None
    /\ huggingface_api_key = None
    /\ AnalyzeIdle
    /\ image_file \in Uploads
    /\ prep_result = NoPrepResult
    /\ displayed = <<>>
    /\ decoded = FALSE
    /\ ResizeIdle
    /\ SourcesIdle
    /\ SessionIdle

PrepareImageForApi ==
    /\ pc = "start"
    /\ LET p == prepare_image_for_api(image_file)
       IN /\ prep_result' = p.result
          /\ displayed' = p.displayed
          /\ decoded' = p.opened
    /\ pc' = "done"
    /\ UNCHANGED <<configVars, analyzeVars, resizeVars, sourceVars, sessionVars, image_file>>

NextPrepare == PrepareImageForApi

SpecPrepare == InitPrepare /\ [][NextPrepare]_vars

----------------------------------------------------------------------------
(* The images resize_image is exercised with *)

MaxDim == 10
MaxBox == 3

DimValues == (1..MaxDim) \cup {1023, 1024, 1025, 1536, 2047, 2048, 3000, 4032, 5000}
BoxValues == {None} \cup {Some(<<a, b>>) : a \in 1..MaxBox, b \in 1..MaxBox}

\* A decoded RGB bitmap of the given dimensions
Bitmap(w, h) ==
    [width |-> w, height |-> h, mode |-> "RGB", loaded |-> TRUE,
     data_ok |-> TRUE, encodable |-> TRUE, content |-> "photo"]

InitResize ==
    /\ pc = "start"
    /\ openrouter_api_key = None
    /\ huggingface_api_key = None
    /\ AnalyzeIdle
    /\ PrepareIdle
    /\ SourcesIdle
    /\ SessionIdle
    /\ image_out = NoImage
    /\ box \in BoxValues
    /\ \E w \in DimValues, h \in DimValues : image_in = Bitmap(w, h)

ResizeImage ==
    /\ pc = "start"
    /\ image_out' = resize_image(image_in, box).value
    /\ pc' = "done"
    /\ UNCHANGED <<configVars, analyzeVars, prepareVars, sourceVars, sessionVars, image_in, box>>

NextResize == ResizeImage

SpecResize == InitResize /\ [][NextResize]_vars

----------------------------------------------------------------------------
(* The construction of Config, for every content of the two sources *)

KeyNames == {"OPENROUTER_API_KEY", "HUGGINGFACE_API_KEY"}
SecretValues == {None, Some(""), Some("sk-secret")}
EnvironValues == {None, Some(""), Some("sk-env")}

SecretStores == [raises : BOOLEAN, entries : [KeyNames -> SecretValues]]
Environments == [KeyNames -> EnvironValues]

InitConfig ==
    /\ pc = "start"
    /\ openrouter_api_key = None
    /\ huggingface_api_key = None
    /\ st_secrets \in SecretStores
    /\ os_environ \in Environments
    /\ AnalyzeIdle
    /\ PrepareIdle
    /\ ResizeIdle
    /\ SessionIdle

\* config = Config()
ConfigNew ==
    /\ pc = "start"
    /\ openrouter_api_key' = get_secret(st_secrets, os_environ, "OPENROUTER_API_KEY")
    /\ huggingface_api_key' = get_secret(st_secrets, os_environ, "HUGGINGFACE_API_KEY")
    /\ pc' = "done"
    /\ UNCHANGED <<analyzeVars, prepareVars, resizeVars, sourceVars, sessionVars>>

NextConfig == ConfigNew

SpecConfig == InitConfig /\ [][NextConfig]_vars

----------------------------------------------------------------------------
(* main(): src/app.py. Streamlit runs main() from the top on every          *)
(* interaction; st.session_state is what survives from one run to the next. *)

selected_model_name == LOCK \o SPACE \o Qwen25
selected_model_id == QwenId

NotUploaded == [result |-> NoPrepResult, displayed |-> <<>>, opened |-> FALSE]

\* The "Display results" block. With a successful result it renders the
\* report (and the Clear Results button); with a failed one it calls
\* display_error.
ShowResult(run) ==
    IF "analysis_result" \in DOMAIN run.session
       /\ ~run.session["analysis_result"].success
      THEN [run EXCEPT !.displayed =
              @ \o <<Shown(Message("Analysis failed", run.session["analysis_result"].error),
                           None)>>]
      ELSE run

\* A run that has reached nothing yet
Stopped(session) ==
    [session |-> session, displayed |-> <<>>, prep |-> NoPrepResult,
     opened |-> FALSE, analyzed |-> FALSE, image |-> <<>>, calls |-> <<>>]

\* The upload column, up being what prepare_image_for_api did (NotUploaded
\* when the uploader is empty): only a returned tuple is stored
UploadColumn(session, up) ==
    [Stopped(session) EXCEPT
       !.session = IF up.result.returned = "tuple"
                     THEN Update(session, ("image" :> up.result.image)
                                          @@ ("base64_image" :> up.result.base64))
                     ELSE session,
       !.displayed = up.displayed,
       !.prep = up.result,
       !.opened = up.opened]

\* result = analyzer.analyze_skin(...); st.session_state['analysis_result'] = result
StoreAnalysis(uploaded, a) ==
    [uploaded EXCEPT
       !.session = Update(uploaded.session, "analysis_result" :> a.result),
       !.analyzed = TRUE,
       !.image = uploaded.session["base64_image"],
       !.calls = a.calls]

\* The analysis column and the results block, after the upload column
AnalyzeColumn(uploaded, analyze_button, resp) ==
    IF uploaded.prep.returned = "raised"
      THEN uploaded       \* the exception ended the run in the upload column
    ELSE IF ~analyze_button
      THEN ShowResult(uploaded)
    ELSE IF "base64_image" \notin DOMAIN uploaded.session
      THEN ShowResult([uploaded EXCEPT !.displayed =
              @ \o <<Shown(Message("Please upload an image first!", <<>>), None)>>])
    ELSE ShowResult(StoreAnalysis(uploaded,
                      analyze_skin(uploaded.session["base64_image"], selected_model_name,
                                   selected_model_id, resp.openrouter, resp.huggingface)))

\* One run of main() with the given widget values: file is what the uploader
\* holds, analyze_button whether the Analyze button was the interaction.
\* The record tells the session state the run leaves, the display_error calls
\* it made, what prepare_image_for_api handed back, and whether and with
\* which arguments analyzer.analyze_skin was called.
main(orKey, hfKey, session, file, analyze_button, resp) ==
    IF ~is_openrouter_configured(orKey) /\ ~is_huggingface_configured(hfKey)
      THEN Stopped(session)
    ELSE IF get_available_models(orKey, hfKey) = EmptyDict
      THEN [Stopped(session) EXCEPT !.displayed =
              <<Shown(Message("No models available. Please configure at least one API key.",
                              <<>>), None)>>]
    ELSE AnalyzeColumn(
           UploadColumn(session,
                        IF file = None THEN NotUploaded ELSE prepare_image_for_api(file)),
           analyze_button, resp)

----------------------------------------------------------------------------
(* A session of the application: uploads, removals and Analyze clicks *)

\* a.jpg
PhotoName == <<97, 46, 106, 112, 103>>
Photo == File(PhotoName, MaxFileBytes, TRUE, TRUE, "RGB", <<800, 600>>, TRUE)
\* The files the uploader lets through (its type filter is supported_formats):
\* two sound photos, and files the normalizer rejects
AppFiles ==
    { Photo,
      [Photo EXCEPT !.content = "other photo", !.width = 4032, !.height = 3024],
      [Photo EXCEPT !.content = "oversized", !.size = MaxFileBytes + 1],       \* over 10 MB
      [Photo EXCEPT !.content = "no picture", !.header_ok = FALSE, !.data_ok = FALSE],   \* not a picture
      [Photo EXCEPT !.content = "unencodable", !.encodable = FALSE],             \* the JPEG encoder fails
      [Photo EXCEPT !.content = "truncated", !.data_ok = FALSE,
                    !.width = 4032, !.height = 3024] }  \* truncated

AppResponses ==
    { [openrouter |-> oo, huggingface |-> HFResponse("ok", "", TRUE, TRUE, JStr("X"))] :
        oo \in OpenRouterOutcomes }

\* Before the page is first served
Init ==
    /\ pc = "start"
    /\ ConfigInit
    /\ AnalyzeIdle
    /\ PrepareIdle
    /\ ResizeIdle
    /\ SourcesIdle
    /\ SessionIdle

\* The state a run of main() leaves
Leave(file, resp, run) ==
    /\ image_file' = file
    /\ session_state' = run.session
    /\ displayed' = run.displayed
    /\ prep_result' = run.prep
    /\ decoded' = run.opened
    /\ analyzed' = run.analyzed
    /\ calls' = calls \o run.calls
    /\ IF run.analyzed
         THEN /\ base64_image' = run.image
              /\ model_name' = selected_model_name
              /\ model_id' = selected_model_id
              /\ response' = resp
         ELSE UNCHANGED <<base64_image, model_name, model_id, response>>
    /\ pc' = "main"
    /\ UNCHANGED <<configVars, analysis_result, resizeVars, sourceVars>>

\* The run of main() an interaction triggers
Run(file, analyze_button, resp) ==
    Leave(file, resp, main(openrouter_api_key, huggingface_api_key, session_state, file,
                           analyze_button, resp))

\* The widgets the last run of main() rendered: none before the first run;
\* the uploader only past the two early returns; the Analyze button only if,
\* besides, no exception ended the run in the upload column. The Clear
\* Results button is rendered under a successful result only.
UploaderRendered ==
    /\ pc = "main"
    /\ is_openrouter_configured(openrouter_api_key)
          \/ is_huggingface_configured(huggingface_api_key)
    /\ get_available_models(openrouter_api_key, huggingface_api_key) # EmptyDict
AnalyzeRendered ==
    /\ UploaderRendered
    /\ prep_result.returned # "raised"

\* The page is opened: the first run, with empty widgets
OpenPage ==
    /\ pc = "start"
    /\ Run(None, FALSE, NoResponse)

\* The user puts a file in the uploader
UploadFile(f) ==
    /\ UploaderRendered
    /\ image_file # Some(f)
    /\ Run(Some(f), FALSE, NoResponse)

\* The user removes the file from the uploader
RemoveFile ==
    /\ UploaderRendered
    /\ image_file # None
    /\ Run(None, FALSE, NoResponse)

\* The user presses Analyze My Skin
ClickAnalyze(resp) ==
    /\ AnalyzeRendered
    /\ Run(image_file, TRUE, resp)

Next ==
    \/ OpenPage
    \/ \E f \in AppFiles : UploadFile(f)
    \/ RemoveFile
    \/ \E resp \in AppResponses : ClickAnalyze(resp)

Spec == Init /\ [][Next]_vars

----------------------------------------------------------------------------
(* Properties of the analysis dispatcher, checked under SpecAnalyze *)

AnalyzeDone == pc = "done" /\ response # NoResponse

CallsTo(provider) == {i \in DOMAIN calls : calls[i].provider = provider}

IsResultDict(r) == "success" \in DOMAIN r
IsFailureOf(r, id, provider) ==
    /\ IsResultDict(r)
    /\ r.success = FALSE
    /\ r.model = id
    /\ r.provider = provider
IsSuccessWith(r, text, id, provider) ==
    /\ IsResultDict(r)
    /\ r.success = TRUE
    /\ r.analysis = text
    /\ r.model = id
    /\ r.provider = provider

\* A display name carries a provider's marker when it begins with it, in the
\* spelling of the catalog (config.py) or in the spelling the dispatcher tests.
CarriesOpenRouterMarker(name) ==
    StartsWith(name, LOCK) \/ StartsWith(name, OPENROUTER_PREFIX)
CarriesHuggingFaceMarker(name) ==
    StartsWith(name, HUG) \/ StartsWith(name, HUGGINGFACE_PREFIX)

AvailableModels == get_available_models(openrouter_api_key, huggingface_api_key)

\* C1: every (display name, model id) entry of get_available_models() is
\* routed to its own provider by analyze_skin: an OpenRouter catalog entry to
\* analyze_with_openrouter, a Hugging Face catalog entry to
\* analyze_with_huggingface, and none ends in 'Unknown model provider'.
C1_CatalogEntriesAreRouted ==
    (/\ AnalyzeDone
     /\ model_name \in DOMAIN AvailableModels
     /\ model_id = AvailableModels[model_name])
    => /\ IsResultDict(analysis_result)
       /\ analysis_result.provider # "Unknown"
       /\ model_name \in DOMAIN Prefixed(LOCK, openrouter_models)
             => analysis_result.provider = "OpenRouter"
       /\ model_name \in DOMAIN Prefixed(HUG, huggingface_models)
             => analysis_result.provider = "Hugging Face"

\* C2: a display name carrying the OpenRouter marker never leads to a Hugging
\* Face network call, and a display name carrying the Hugging Face marker never
\* leads to an OpenRouter network call, whatever the model id and the image.
C2_RoutingCorrectness ==
    AnalyzeDone =>
       /\ CarriesOpenRouterMarker(model_name) => CallsTo("Hugging Face") = {}
       /\ CarriesHuggingFaceMarker(model_name) => CallsTo("OpenRouter") = {}

C2_Witness ==
    /\ AnalyzeDone
    /\ StartsWith(model_name, OPENROUTER_PREFIX)
    /\ calls = <<Call("OpenRouter", model_id, base64_image)>>
    /\ model_id = LlavaId

\* C3: a display name that begins with neither marker the dispatcher tests
\* gets the failure result {success False, error 'Unknown model provider',
\* model = the requested id, provider 'Unknown'} and no network call is made.
C3_UnknownProviderShortCircuit ==
    (/\ AnalyzeDone
     /\ ~StartsWith(model_name, OPENROUTER_PREFIX)
     /\ ~StartsWith(model_name, HUGGINGFACE_PREFIX))
    => /\ analysis_result = Failure("Unknown model provider", model_id, "Unknown")
       /\ calls = <<>>

C3_Witness ==
    /\ AnalyzeDone
    /\ model_name = SPACE \o OPENROUTER_PREFIX \o Qwen25
    /\ IsFailureOf(analysis_result, model_id, "Unknown")
    /\ calls = <<>>

\* C4: when the request sent to a provider ends in a timeout, a transport
\* exception or a non-success HTTP status, the analyze call returns a failure
\* dict (no exception leaves it) whose model is the requested id and whose
\* provider is the provider the request went to.
C4_FailureContainment ==
    AnalyzeDone =>
       /\ (/\ CallsTo("OpenRouter") # {}
           /\ response.openrouter.kind \in {"timeout", "connection", "status_error"})
          => IsFailureOf(analysis_result, model_id, "OpenRouter")
       /\ (/\ CallsTo("Hugging Face") # {}
           /\ response.huggingface.kind \in {"timeout", "connection", "other", "http_error"})
          => IsFailureOf(analysis_result, model_id, "Hugging Face")

C4_Witness ==
    /\ AnalyzeDone
    /\ CallsTo("Hugging Face") # {}
    /\ response.huggingface.kind = "http_error"
    /\ analysis_result = Failure("Model is loading", model_id, "Hugging Face")

\* The answer analyze_with_huggingface parsed, when it got a status-200 JSON body
HFParsedBody == response.huggingface.body
HFAnsweredJson ==
    /\ AnalyzeDone
    /\ CallsTo("Hugging Face") # {}
    /\ response.huggingface.kind = "ok"
    /\ response.huggingface.parsable

\* C5: on a status-200 JSON answer of Hugging Face, whatever the shape of the
\* body, the result is a success whose analysis is a field extracted from the
\* body or, failing that, the string rendering of the whole body.
C5_AnyBodyShapeSucceeds ==
    HFAnsweredJson =>
       /\ IsResultDict(analysis_result)
       /\ analysis_result.success = TRUE
       /\ \/ analysis_result.analysis = PyStr(HFParsedBody)
          \/ \E b \in {HFParsedBody} \cup {HFParsedBody.items[i] : i \in DOMAIN HFParsedBody.items} :
               \E k \in DOMAIN b.val : analysis_result.analysis = b.val[k]

\* C6: on a status-200 answer, a one-element list [{"generated_text": X}], an
\* object {"generated_text": X} and an object {"text": X} all give a success
\* with analysis X; an object with both fields gives its generated_text.
C6_ExtractionPriority ==
    HFAnsweredJson =>
       LET b == HFParsedBody
       IN /\ (/\ b.kind = "list"
              /\ Len(b.items) = 1
              /\ b.items[1].kind = "dict"
              /\ GT \in DOMAIN b.items[1].val)
             => IsSuccessWith(analysis_result, b.items[1].val[GT], model_id, "Hugging Face")
          /\ (b.kind = "dict" /\ GT \in DOMAIN b.val)
             => IsSuccessWith(analysis_result, b.val[GT], model_id, "Hugging Face")
          /\ (b.kind = "dict" /\ GT \notin DOMAIN b.val /\ "text" \in DOMAIN b.val)
             => IsSuccessWith(analysis_result, b.val["text"], model_id, "Hugging Face")

C6_Witness ==
    /\ HFAnsweredJson
    /\ HFParsedBody = JDict(<<"text", GT>>, <<"X", "Y">>)
    /\ IsSuccessWith(analysis_result, "Y", model_id, "Hugging Face")

\* C11: every dict analyze_skin returns has exactly one of the two shapes:
\* with success True the keys are success, analysis, model, provider (no
\* error); with success False they are success, error, model, provider (no
\* analysis).
C11_ExactlyOneShape ==
    AnalyzeDone =>
       /\ IsResultDict(analysis_result)
       /\ analysis_result.success = TRUE =>
            DOMAIN analysis_result = {"success", "analysis", "model", "provider"}
       /\ analysis_result.success = FALSE =>
            DOMAIN analysis_result = {"success", "error", "model", "provider"}

C11_Witness ==
    /\ AnalyzeDone
    /\ CallsTo("Hugging Face") # {}
    /\ response.huggingface.kind = "ok"
    /\ IsResultDict(analysis_result)
    /\ analysis_result.success = FALSE
    /\ DOMAIN analysis_result = {"success", "error", "model", "provider"}

----------------------------------------------------------------------------
(* Properties of the image normalizer, checked under SpecPrepare *)

PrepareDone == pc = "done" /\ prep_result # NoPrepResult

Max(S) == CHOOSE m \in S : \A n \in S : m >= n

\* The trailing extension of a file name: what follows its last '.', and the
\* whole name when it has no '.'
TrailingExtension(name) ==
    LET dots == Positions(name, DOT)
        last == IF dots = {} THEN 0 ELSE Max(dots)
    IN SubSeq(name, last + 1, Len(name))

SupportedExtensions == {supported_formats[i] : i \in DOMAIN supported_formats}

\* The first of the three validation checks an upload fails, in the order
\* absent file, size, extension
FirstFailingCheck(file) ==
    IF file = None THEN "absent"
    ELSE IF file[1].size > MaxFileBytes THEN "size"
    ELSE IF Lower(TrailingExtension(file[1].name)) \notin SupportedExtensions THEN "format"
    ELSE "none"

\* C7: an upload whose size exceeds 10 MB gets the size-exceeded error whatever
\* its content and extension, and Image.open is never called on it; the checks
\* run in the order absent file, size, extension and only the message of the
\* first failing one is displayed.
C7_ValidationOrder ==
    PrepareDone =>
       LET check == FirstFailingCheck(image_file)
       IN /\ check = "absent" =>
               displayed = <<Shown(Message("No image file provided", <<>>), None)>>
          /\ check = "size" =>
               displayed = <<Shown(Message("File size exceeds maximum allowed size",
                                           <<image_file[1].size, max_file_size_mb>>), None)>>
          /\ check = "format" =>
               displayed = <<Shown(Message("File format not supported",
                                           Lower(TrailingExtension(image_file[1].name))), None)>>
          /\ check # "none" => prep_result = ReturnedNone /\ ~decoded

C7_Witness ==
    /\ PrepareDone
    /\ image_file # None
    /\ image_file[1].size = MaxFileBytes + 1
    /\ image_file[1].name = <<97, 46, 103, 105, 102>>
    /\ image_file[1].header_ok /\ image_file[1].data_ok
    /\ Len(displayed) = 1
    /\ displayed[1].message.wording = "File size exceeds maximum allowed size"
    /\ ~decoded

\* C8: a file within the size limit whose lowercased trailing extension is not
\* one of jpg, jpeg, png, webp gets the unsupported-format error even when its
\* bytes are a sound image; the test ignores case, so a file whose extension is
\* one of the four in any mix of cases passes validation and is opened.
C8_ExtensionGating ==
    (PrepareDone /\ image_file # None /\ image_file[1].size <= MaxFileBytes) =>
       LET ext == Lower(TrailingExtension(image_file[1].name))
       IN /\ ext \notin SupportedExtensions =>
               /\ prep_result = ReturnedNone
               /\ ~decoded
               /\ displayed = <<Shown(Message("File format not supported", ext), None)>>
          /\ ext \in SupportedExtensions =>
               /\ decoded
               /\ \A i \in DOMAIN displayed :
                      displayed[i].message.wording # "File format not supported"

C8_Witness ==
    /\ PrepareDone
    /\ image_file # None
    /\ image_file[1].name = <<97, 46, 103, 105, 102>>
    /\ image_file[1].size = MaxFileBytes
    /\ image_file[1].header_ok /\ image_file[1].data_ok /\ image_file[1].encodable
    /\ prep_result = ReturnedNone
    /\ displayed[1].message.wording = "File format not supported"

\* The failure kind of an upload, from what the upload is: rejected by
\* validation, bytes that do not decode, a bitmap the encoder rejects
FailureKind(file) ==
    IF FirstFailingCheck(file) # "none" THEN "validation"
    ELSE IF ~file[1].header_ok \/ ~file[1].data_ok THEN "decode"
    ELSE IF ~file[1].encodable THEN "encode"
    ELSE "none"

FailureSamples ==
    { Some(File(<<97, 46, 103, 105, 102>>, MaxFileBytes, TRUE, TRUE, "RGB", <<800, 600>>, TRUE)),
      Some(File(<<97, 46, 106, 112, 103>>, MaxFileBytes, FALSE, FALSE, "RGB", <<800, 600>>, TRUE)),
      Some(File(<<97, 46, 106, 112, 103>>, MaxFileBytes, TRUE, TRUE, "RGB", <<800, 600>>, FALSE)) }

LoadFails(f) == ~f.header_ok \/ (f.mode # "RGB" /\ ~f.data_ok)
DecoderError(f) ==
    IF ~f.header_ok THEN "cannot identify image file" ELSE "image file is truncated"
EncoderRejects(f) == f.header_ok /\ f.data_ok /\ ~f.encodable

----------------------------------------------------------------------------
(* Properties of resize_image, checked under SpecResize *)

ResizeDone == pc = "done" /\ image_out # NoImage

BoxOf(b) == IF b = None THEN max_image_size ELSE b[1]

\* C10: resize_image fits the image within the box: an image within the box
\* keeps its dimensions; any other comes out with both dimensions within the
\* box, with a width/height ratio that is the input's up to one pixel in one
\* dimension, and with no dimension larger than the input's.
C10_FitWithinBox ==
    ResizeDone =>
       LET w == image_in.width
           h == image_in.height
           ow == image_out.width
           oh == image_out.height
           m == BoxOf(box)
       IN IF w <= m[1] /\ h <= m[2]
            THEN ow = w /\ oh = h
            ELSE /\ ow <= m[1] /\ oh <= m[2]
                 /\ Abs(ow * h - oh * w) < Max2(w, h)
                 /\ ow <= w /\ oh <= h

C10_Witness ==
    /\ ResizeDone
    /\ box = None
    /\ image_in.width = 4032 /\ image_in.height = 3000
    /\ image_out.width = 1024 /\ image_out.height = 762

----------------------------------------------------------------------------
(* Properties of the settings resolver, checked under SpecConfig *)

ConfigDone == pc = "done" /\ st_secrets # <<>>

\* What the secrets store gives for a key: nothing when the key is not in it
\* or when reading it fails
StoreValue(k) == IF st_secrets.raises THEN None ELSE st_secrets.entries[k]
Resolved(k) ==
    IF k = "OPENROUTER_API_KEY" THEN openrouter_api_key ELSE huggingface_api_key
Configured(k) ==
    IF k = "OPENROUTER_API_KEY"
      THEN is_openrouter_configured(openrouter_api_key)
      ELSE is_huggingface_configured(huggingface_api_key)

\* C13: for every content of the secrets store and of the environment
\* (absent, empty, non-empty), the resolved credential is the store's entry
\* when the store has one, and the environment variable otherwise, also when
\* reading the store fails; a key in neither resolves to None (no error), and
\* a provider is configured exactly when its resolved value is a non-empty
\* string.
C13_ResolutionPrecedence ==
    ConfigDone =>
      \A k \in KeyNames :
        /\ StoreValue(k) # None => Resolved(k) = StoreValue(k)
        /\ StoreValue(k) = None => Resolved(k) = os_environ[k]
        /\ (StoreValue(k) = None /\ os_environ[k] = None) =>
              (Resolved(k) = None /\ ~Configured(k))
        /\ Configured(k) <=> Resolved(k) \in {Some("sk-secret"), Some("sk-env")}

C13_Witness ==
    /\ ConfigDone
    /\ st_secrets.raises
    /\ st_secrets.entries["OPENROUTER_API_KEY"] = Some("sk-secret")
    /\ os_environ["OPENROUTER_API_KEY"] = Some("sk-env")
    /\ openrouter_api_key = Some("sk-env")
    /\ st_secrets.entries["HUGGINGFACE_API_KEY"] = None
    /\ os_environ["HUGGINGFACE_API_KEY"] = None
    /\ ~is_huggingface_configured(huggingface_api_key)

----------------------------------------------------------------------------
(* Properties of the application session, checked under Spec *)

MainRan == pc = "main"
NoCredential(key) == key \in {None, Some("")}

\* C12: when both credentials are absent or empty, get_available_models()
\* is empty and, whatever the user does, no run of main() reaches
\* analyze_skin or issues a provider call, and no analysis result is ever
\* stored.
C12_NoProviderNoNetwork ==
    (NoCredential(openrouter_api_key) /\ NoCredential(huggingface_api_key)) =>
       /\ get_available_models(openrouter_api_key, huggingface_api_key) = EmptyDict
       /\ ~analyzed
       /\ calls = <<>>
       /\ "analysis_result" \notin DOMAIN session_state
       /\ ~UploaderRendered

C12_Witness ==
    /\ MainRan
    /\ openrouter_api_key = Some("")
    /\ huggingface_api_key = None
    /\ get_available_models(openrouter_api_key, huggingface_api_key) = EmptyDict
    /\ displayed = <<>>
    /\ ~analyzed

\* What prepare_image_for_api makes of the file the uploader holds
NormalizedUpload ==
    IF image_file = None THEN NoPrepResult ELSE prepare_image_for_api(image_file).result

\* C14: when a run of main() calls analyze_skin, the image it passes is the
\* normalized image of the file the uploader holds at that moment (the most
\* recent upload): never the image of an earlier upload after a rejected
\* upload or a removal.
C14_AnalyzesMostRecentUpload ==
    (MainRan /\ analyzed) =>
       /\ NormalizedUpload.returned = "tuple"
       /\ base64_image = NormalizedUpload.base64

\* C15: a run of main() calls analyze_skin (with the hardcoded OpenRouter
\* model) only when the OpenRouter credential is configured, and every
\* provider call goes to a configured provider; with only the Hugging Face
\* credential configured the run stops at "No models available" and no call
\* is made.
C15_CallsOnlyConfiguredProvider ==
    /\ (MainRan /\ analyzed) =>
          (openrouter_api_key = Some("sk-key") /\ model_id = QwenId)
    /\ \A i \in DOMAIN calls :
          /\ calls[i].provider = "OpenRouter" => openrouter_api_key = Some("sk-key")
          /\ calls[i].provider = "Hugging Face" => huggingface_api_key = Some("sk-key")
    /\ (MainRan /\ NoCredential(openrouter_api_key) /\ huggingface_api_key = Some("sk-key")) =>
          /\ ~analyzed
          /\ calls = <<>>
          /\ ~UploaderRendered
          /\ displayed =
               <<Shown(Message("No models available. Please configure at least one API key.",
                               <<>>), None)>>

C15_Witness ==
    /\ MainRan
    /\ analyzed
    /\ openrouter_api_key = Some("sk-key")
    /\ huggingface_api_key = None
    /\ model_name = selected_model_name
    /\ "analysis_result" \in DOMAIN session_state

====
